---- MODULE Spec2Model ----
(***************************************************************************)
(* Model of twikit: the twid module loader (Loader.Start and the units it  *)
(* supervises through an errgroup) and the twicli command engine           *)
(* (Command.Loop, Command.DoAndReply, Command.Do, Subcommands).            *)
(***************************************************************************)
EXTENDS Integers, Sequences, FiniteSets, TLC

(***************************************************************************)
(* Bounds                                                                  *)
(***************************************************************************)
\* messages the transport delivers to the subscribed loops during one run
MaxRecv == 2

\* the same, in the runs checked for progress
MaxRecvFair == 1

(***************************************************************************)
(* Names and values                                                        *)
(***************************************************************************)
\* the registered modules (Register refuses the names "twid" and "twipi")
Modules == {"alpha", "beta"}

\* keys of Loader.enabled the model reads
Names == Modules \cup {"twid"}

\* optional capabilities probed by Start: MessageHandler, CommandHandler
Capabilities == {"msg", "cmd"}

\* l.twipi == nil / l.twipi.Message == nil / both configured
TwipiStates == {"nil", "nomsg", "ok"}

Nil == "nil"
NotReturned == "pending"
ErrTwidNotEnabled == "twid is not enabled"
ErrTwipiNotConfigured == "twipi is not configured"
ErrTwipiMessageNotConfigured == "twipi message handler is not configured"
ErrHTTP == "http: listen and serve failed"
ErrNotMatchedText == "message did not match command"
ErrAction == "action failed"
ErrReply == "cannot reply with error message"

\* errors.Wrapf(err, "failed to start module %q", name)
ErrModuleStart(m) == "failed to start module " \o m

PreconditionErrors == {ErrTwidNotEnabled, ErrTwipiNotConfigured, ErrTwipiMessageNotConfigured}
UnitErrors == {ErrHTTP} \cup {ErrModuleStart(m) : m \in Modules}
DispatchErrors == {ErrNotMatchedText, ErrAction, ErrReply}

VARIABLES
  enabled,         \* Loader.enabled
  caps,            \* capabilities each handler implements
  twipi,           \* Loader.twipi
  http,            \* Loader.http != nil
  pc,              \* position of the goroutine running Loader.Start
  cur,             \* module of the current iteration of the range loop
  visited,         \* handlers the range loop has already visited
  startResult,     \* value returned by Loader.Start
  twipiClosed,     \* deferred l.twipi.Close() has run
  parentCancelled, \* the context passed to Start is cancelled
  groupCancelled,  \* the errgroup cancelled its derived context
  errgErr,         \* errgroup: first error recorded
  twipiTask,       \* unit running l.twipi.UpdateTwilio
  httpTask,        \* unit running the HTTP accept loop
  subLoop,         \* per module: subscription loop unit
  cmdLoop,         \* per module: command loop unit
  modStart,        \* per module: handler.Start unit
  hm,              \* per module: HandleMessage units running
  dr,              \* per module: DoAndReply units running
  subSpawned,      \* per module: HandleMessage units spawned
  cmdRecv,         \* per module: messages received by Command.Loop
  cmdSpawned,      \* per module: DoAndReply units spawned
  cmdSub,          \* per module: Command.Loop's channel is subscribed
  lastDoErr,       \* last error inside a dispatch unit: of Do, or of the reply
  inbound,         \* messages the transport has still to deliver
  root,            \* twicli: the command given to DoAndReply
  inbox,           \* twicli: messages received and not yet dispatched
  cmdMsg,          \* twicli: the twipi.Message last dispatched
  callerMsg,       \* twicli: the Message DoAndReply passed to Do, after Do
  doErr,           \* twicli: error returned by Do in the last dispatch
  trace,           \* twicli: matcher and action invocations of the last dispatch
  replies,         \* twicli: replies attempted by the last dispatch
  logged,          \* twicli: the last dispatch logged a failed reply
  matcher,         \* twicli: a PrefixFunc
  input,           \* twicli: the body given to the PrefixFunc
  matched,         \* twicli: what the PrefixFunc returned, once applied
  sms,             \* twisms: a message on the bus
  filters,         \* twisms: the MessageFilters of a subscription
  accepted,        \* twisms: what FilterMessage returned, once called
  service,         \* twisms: the MessageSender given to ReplyMessage
  replyBody,       \* twisms: the body given to ReplyMessage
  calls,           \* twisms: the calls ReplyMessage made on the service
  replyErr,        \* twisms: what ReplyMessage returned, once called
  modules,         \* twid: the names of the registered modules, in order
  panicMsg,        \* twid: the message of the panic that ended the process
  handlers,        \* twid: the loader's handlers, by name; each is the
                   \*   handler made by the module at the given index
  built,           \* twid: NewGlobalLoader has run
  doc,             \* twid: the configuration document given to LoadConfig
  loadResult,      \* twid: what LoadConfig returned
  bound,           \* twid: the number of BindTwipi calls on each handler
  mounted          \* twid: the routes on the mux, in the order mounted

loaderVars == <<enabled, caps, twipi, http, pc, cur, visited, startResult,
                twipiClosed, parentCancelled, groupCancelled, errgErr,
                twipiTask, httpTask, subLoop, cmdLoop, modStart, hm, dr,
                subSpawned, cmdRecv, cmdSpawned, cmdSub, lastDoErr,
                inbound>>

prefixVars == <<matcher, input, matched>>

busVars == <<sms, filters, accepted, service, replyBody, calls, replyErr>>

registryVars == <<modules, panicMsg, handlers, built>>

loadVars == <<doc, loadResult, bound, mounted>>

libVars == <<prefixVars, busVars, registryVars, loadVars>>

engineVars == <<root, inbox, cmdMsg, callerMsg, doErr, trace, replies, logged, libVars>>

vars == <<loaderVars, engineVars>>

(***************************************************************************)
(* errgroup as used by Loader.Start                                        *)
(***************************************************************************)
RECURSIVE SumOver(_, _)
SumOver(f, S) ==
  IF S = {} THEN 0
  ELSE LET m == CHOOSE x \in S : TRUE IN f[m] + SumOver(f, S \ {m})

Active(s) == s \notin {"none", "done"}

\* units Start itself spawned with errg.Go that have not returned
TopLevelPending ==
  (IF Active(twipiTask) THEN 1 ELSE 0) + (IF Active(httpTask) THEN 1 ELSE 0)
  + Cardinality({m \in Modules : Active(subLoop[m])})
  + Cardinality({m \in Modules : Active(cmdLoop[m])})
  + Cardinality({m \in Modules : Active(modStart[m])})

ErrgPending_NoHandleMessage == TopLevelPending

\* the errgroup's wait counter: every function passed to errg.Go that has
\* not returned, the HandleMessage units of line 462 included
ErrgPending == TopLevelPending + SumOver(hm, Modules)

CtxDone_NoParent == groupCancelled

\* ctx.Done() of the context derived by errgroup.WithContext(ctx)
CtxDone == parentCancelled \/ groupCancelled

\* errOnce.Do: only the first non-nil error is kept
ErrgErrAfter(e) == IF e # Nil /\ errgErr = Nil THEN e ELSE errgErr

\* the first non-nil error cancels the derived context
GroupCancelledAfter(e) == groupCancelled \/ e # Nil

(***************************************************************************)
(* twicli: errors, prefixes, commands                                      *)
(***************************************************************************)
\* children of a Subcommands aggregate
MaxChildren == 2

\* whitespace-delimited words of a message body
MaxWords == 2

Words == {"ping", "Ping", "echo"}

\* strings.ToLower on the words of the model
Lower(w) ==
  CASE w = "Ping" -> "ping"
    [] w = "Discord" -> "discord"
    [] w = "Discord," -> "discord,"
    [] w = "/Msg" -> "/msg"
    [] OTHER -> w

RECURSIVE SeqsUpTo(_, _)
SeqsUpTo(S, n) ==
  IF n = 0 THEN {<<>>}
  ELSE LET shorter == SeqsUpTo(S, n - 1)
       IN shorter \cup {Append(q, x) : q \in {t \in shorter : Len(t) = n - 1}, x \in S}

\* a body is the sequence of its words
Bodies == SeqsUpTo(Words, MaxWords)

Numbers == {"+15550001", "+15550002"}

\* twipi.Message
Messages == {m \in [from : Numbers, to : Numbers, body : Bodies] : m.from # m.to}

\* an error is the chain of its layers, outermost first; nil is the empty chain
NilErr == <<>>

\* var ErrNotMatched = errors.New("message did not match command")
ErrNotMatched == <<[id |-> "ErrNotMatched", msg |-> "message did not match command"]>>

\* errors.Wrap(err, msg)
Wrap(err, msg) == <<[id |-> "wrap", msg |-> msg]>> \o err

ErrBoom == <<[id |-> "boom", msg |-> "boom"]>>

\* errors.Is(err, target): some layer of the chain is the target itself
ErrorsIs(err, target) == \E i \in 1..Len(err) : err[i].id = target[1].id

\* err.Error(): the layers' messages joined by ": "
RECURSIVE ErrorText(_)
ErrorText(err) ==
  IF Len(err) = 1 THEN err[1].msg
  ELSE err[1].msg \o ": " \o ErrorText(Tail(err))

NotUnderstood == "Sorry! I'm not sure what you mean."

ErrorMessage(err) ==
  IF err = NilErr THEN ""
  ELSE IF ErrorsIs(err, ErrNotMatched) THEN NotUnderstood
  ELSE "Sorry, an error occured: " \o ErrorText(err)

\* PopFirstWord(msg): the first word and the rest; an error on an empty body
PopFirstWord(body) ==
  IF body = <<>> THEN [first |-> "", tail |-> <<>>, err |-> TRUE]
  ELSE [first |-> Head(body), tail |-> Tail(body), err |-> FALSE]

\* the PrefixFunc returned by NewWordPrefix(word, cased)
NewWordPrefix(word, cased, body) ==
  LET p == PopFirstWord(body)
  IN IF p.err THEN [body |-> <<>>, ok |-> FALSE]
     ELSE [body |-> p.tail,
           ok |-> IF cased THEN p.first = word ELSE Lower(p.first) = Lower(word)]

\* c.Prefix(body)
Prefix(pf, body) == NewWordPrefix(pf.word, pf.cased, body)

SkipChild_AnyError(err) == err # NilErr

\* Subcommands: if errors.Is(err, ErrNotMatched) { continue }
SkipChild(err) == ErrorsIs(err, ErrNotMatched)

\* twicli.Message{msg, msg.Body}: the twipi.Message and the working body
Message(orig, body) == [orig |-> orig, body |-> body]

WithBody_Unstripped(msg, body) == msg

\* Command.Do: msg.Body = body
WithBody(msg, body) == [msg EXCEPT !.body = body]

AfterCall_ByReference(caller, callee) == callee

\* a Message is passed by value: what the callee does to its parameter does
\* not reach the caller's variable
AfterCall(caller, callee) == caller

\* an invocation of a matcher or an action, with the message it was given
Invoked(c, what, msg) ==
  [cmd |-> c.id, ev |-> what, body |-> msg.body, orig |-> msg.orig]

RECURSIVE Do(_, _, _), SubcommandsFrom(_, _, _, _)

\* c.Action(ctx, msg): a leaf returns its result, an aggregate runs its
\* children; tr is the invocation trace so far; msg in the result is the
\* callee's parameter when it returns
Action(c, msg, tr) ==
  LET tr2 == Append(tr, Invoked(c, "action", msg))
  IN IF c.kind = "leaf" THEN [err |-> c.result, trace |-> tr2, msg |-> msg]
     ELSE SubcommandsFrom(c.children, 1, msg, tr2)

\* Command.Do
Do(c, msg, tr) ==
  LET r == Prefix(c.prefix, msg.body)
      tr2 == Append(tr, Invoked(c, "prefix", msg))
  IN IF r.ok
       THEN LET stripped == WithBody(msg, r.body)
                a == Action(c, stripped, tr2)
            IN [err |-> a.err, trace |-> a.trace,
                msg |-> AfterCall(stripped, a.msg)]
       ELSE [err |-> ErrNotMatched, trace |-> tr2, msg |-> msg]

\* the loop of Subcommands, from child i on
SubcommandsFrom(cmds, i, msg, tr) ==
  IF i > Len(cmds) THEN [err |-> ErrNotMatched, trace |-> tr, msg |-> msg]
  ELSE LET r == Do(cmds[i], msg, tr)
           after == AfterCall(msg, r.msg)
       IN IF SkipChild(r.err) THEN SubcommandsFrom(cmds, i + 1, after, r.trace)
          ELSE [err |-> r.err, trace |-> r.trace, msg |-> after]

\* results of the leaf actions considered
LeafResults == {NilErr, ErrNotMatched, Wrap(ErrNotMatched, "lookup"), ErrBoom}

LeafPrefixes == {[word |-> "echo", cased |-> TRUE], [word |-> "ping", cased |-> FALSE]}

Leaf(i, pf, res) ==
  [id |-> i, prefix |-> pf, kind |-> "leaf", result |-> res, children |-> <<>>]

ChildLists ==
  UNION {{[i \in 1..n |-> Leaf(i, ch[i][1], ch[i][2])] :
            ch \in [1..n -> LeafPrefixes \X LeafResults]} : n \in 0..MaxChildren}

\* Command{Prefix: NewWordPrefix("ping", false), Action: Subcommands(cmds)}
RootOver(cmds) ==
  [id |-> 0, prefix |-> [word |-> "ping", cased |-> FALSE], kind |-> "sub",
   result |-> NilErr, children |-> cmds]

NoMessage == [from |-> "", to |-> "", body |-> <<>>]

(***************************************************************************)
(* State after NewLoader and a LoadConfig that returned                    *)
(***************************************************************************)
\* LoadConfig mounts the transport on l.mux whenever l.twipi is set, so a
\* LoadConfig that returned with the transport created also created the mux
\* and the HTTP server
ConfigLoaded(tw, h) == tw # "nil" => h

\* the handler sets considered, up to renaming of the modules: each optional
\* capability is implemented by at most one registered module
HandlerSets(c) ==
  /\ \A k \in Capabilities : Cardinality({m \in Modules : k \in c[m]}) <= 1
  /\ "msg" \notin c["beta"]

InitLoader(deliveries) ==
  /\ enabled \in [Names -> BOOLEAN]
  /\ caps \in [Modules -> SUBSET Capabilities]
  /\ twipi \in TwipiStates
  /\ http \in BOOLEAN
  /\ ConfigLoaded(twipi, http)
  /\ HandlerSets(caps)
  /\ pc = "check"
  /\ cur = "none"
  /\ visited = {}
  /\ startResult = NotReturned
  /\ twipiClosed = FALSE
  /\ parentCancelled = FALSE
  /\ groupCancelled = FALSE
  /\ errgErr = Nil
  /\ twipiTask = "none"
  /\ httpTask = "none"
  /\ subLoop = [m \in Modules |-> "none"]
  /\ cmdLoop = [m \in Modules |-> "none"]
  /\ modStart = [m \in Modules |-> "none"]
  /\ hm = [m \in Modules |-> 0]
  /\ dr = [m \in Modules |-> 0]
  /\ subSpawned = [m \in Modules |-> 0]
  /\ cmdRecv = [m \in Modules |-> 0]
  /\ cmdSpawned = [m \in Modules |-> 0]
  /\ cmdSub = [m \in Modules |-> FALSE]
  /\ lastDoErr = Nil
  /\ inbound = deliveries

\* no PrefixFunc is under test
PrefixIdle ==
  /\ matcher = [kind |-> "none"]
  /\ input = <<>>
  /\ matched = <<>>

\* no message is filtered or replied to
BusIdle ==
  /\ sms = [from |-> "", to |-> "", body |-> ""]
  /\ filters = [nil |-> TRUE, filters |-> <<>>]
  /\ accepted = <<>>
  /\ service = [replier |-> FALSE, result |-> NilErr]
  /\ replyBody = ""
  /\ calls = <<>>
  /\ replyErr = <<>>

\* the global registry is not exercised
RegistryIdle ==
  /\ modules = <<>>
  /\ panicMsg = ""
  /\ handlers = <<>>
  /\ built = FALSE

\* the document of a LoadConfig that is not tracked
NoDoc ==
  [parses |-> TRUE, enable |-> [n \in Names \cup {"twipi"} |-> "absent"],
   listen |-> FALSE, twipiCfg |-> "ok"]

\* LoadConfig is not exercised: it has returned nil
LoadIdle ==
  /\ doc = NoDoc
  /\ loadResult = Nil
  /\ bound = [m \in Modules |-> 0]
  /\ mounted = <<>>

LibIdle == PrefixIdle /\ BusIdle /\ RegistryIdle /\ LoadIdle

\* no message has been dispatched
EngineIdle ==
  /\ cmdMsg = NoMessage
  /\ callerMsg = Message(NoMessage, <<>>)
  /\ doErr = NilErr
  /\ trace = <<>>
  /\ replies = <<>>
  /\ logged = FALSE

Init ==
  /\ InitLoader(MaxRecv)
  /\ root = RootOver(<<>>)
  /\ inbox = <<>>
  /\ EngineIdle
  /\ LibIdle

\* for the liveness properties the optional capabilities are alpha's; beta
\* is a module with a Start only
InitFair ==
  /\ InitLoader(MaxRecvFair)
  /\ caps["beta"] = {}
  /\ root = RootOver(<<>>)
  /\ inbox = <<>>
  /\ EngineIdle
  /\ LibIdle

configVars == <<enabled, caps, twipi, http>>
startVars == <<pc, cur, visited, startResult, twipiClosed>>
errgVars == <<groupCancelled, errgErr>>
subVars == <<subLoop, hm, subSpawned>>
cmdVars == <<cmdLoop, dr, cmdRecv, cmdSpawned, cmdSub, lastDoErr>>

(***************************************************************************)
(* Loader.Start: the goroutine of the caller                               *)
(***************************************************************************)
\* return err from inside Start: the deferred l.twipi.Close() runs if it was
\* registered (l.twipi != nil)
Return(err) ==
  /\ startResult' = err
  /\ pc' = "returned"
  /\ twipiClosed' = (twipi # "nil")

TwidEnabled_Unchecked == TRUE

\* l.enabled["twid"]
TwidEnabled == enabled["twid"]

StartCheck ==
  /\ pc = "check"
  /\ IF ~TwidEnabled
       THEN /\ startResult' = ErrTwidNotEnabled
            /\ pc' = "returned"
            /\ UNCHANGED twipiClosed
       ELSE /\ pc' = "twipi"
            /\ UNCHANGED <<startResult, twipiClosed>>
  /\ UNCHANGED <<engineVars, configVars, inbound, cur, visited, parentCancelled, errgVars,
                 twipiTask, httpTask, subVars, cmdVars, modStart>>

StartSpawnTwipi ==
  /\ pc = "twipi"
  /\ twipiTask' = IF twipi # "nil" THEN "run" ELSE twipiTask
  /\ pc' = "http"
  /\ UNCHANGED <<engineVars, configVars, inbound, cur, visited, startResult, twipiClosed,
                 parentCancelled, errgVars, httpTask, subVars, cmdVars, modStart>>

StartSpawnHTTP ==
  /\ pc = "http"
  /\ httpTask' = IF http THEN "run" ELSE httpTask
  /\ pc' = "range"
  /\ UNCHANGED <<engineVars, configVars, inbound, cur, visited, startResult, twipiClosed,
                 parentCancelled, errgVars, twipiTask, subVars, cmdVars, modStart>>

\* for name, handler := range l.handlers: map order is unspecified
StartRange ==
  /\ pc = "range"
  /\ IF visited = Modules
       THEN /\ pc' = "wait"
            /\ UNCHANGED <<cur, visited>>
       ELSE \E m \in Modules \ visited :
              /\ visited' = visited \cup {m}
              /\ IF ~enabled[m]
                   THEN UNCHANGED <<pc, cur>>
                   ELSE /\ cur' = m
                        /\ pc' = "msg"
  /\ UNCHANGED <<engineVars, configVars, inbound, startResult, twipiClosed, parentCancelled,
                 errgVars, twipiTask, httpTask, subVars, cmdVars, modStart>>

TransportError_None == Nil

\* the precondition checks of lines 443-449 and 472-478
TransportError ==
  IF twipi = "nil" THEN ErrTwipiNotConfigured
  ELSE IF twipi = "nomsg" THEN ErrTwipiMessageNotConfigured
  ELSE Nil

StartMessager ==
  /\ pc = "msg"
  /\ IF "msg" \in caps[cur]
       THEN IF TransportError # Nil
              THEN /\ Return(TransportError)
                   /\ UNCHANGED subLoop
              ELSE /\ subLoop' = [subLoop EXCEPT ![cur] = "spawned"]
                   /\ pc' = "cmd"
                   /\ UNCHANGED <<startResult, twipiClosed>>
       ELSE /\ pc' = "cmd"
            /\ UNCHANGED <<startResult, twipiClosed, subLoop>>
  /\ UNCHANGED <<engineVars, configVars, inbound, cur, visited, parentCancelled, errgVars,
                 twipiTask, httpTask, hm, subSpawned, cmdVars, modStart>>

StartCommander ==
  /\ pc = "cmd"
  /\ IF "cmd" \in caps[cur]
       THEN IF TransportError # Nil
              THEN /\ Return(TransportError)
                   /\ UNCHANGED cmdLoop
              ELSE /\ cmdLoop' = [cmdLoop EXCEPT ![cur] = "spawned"]
                   /\ pc' = "start"
                   /\ UNCHANGED <<startResult, twipiClosed>>
       ELSE /\ pc' = "start"
            /\ UNCHANGED <<startResult, twipiClosed, cmdLoop>>
  /\ UNCHANGED <<engineVars, configVars, inbound, cur, visited, parentCancelled, errgVars,
                 twipiTask, httpTask, subVars, dr, cmdRecv, cmdSpawned,
                 cmdSub, lastDoErr, modStart>>

StartModule ==
  /\ pc = "start"
  /\ modStart' = [modStart EXCEPT ![cur] = "run"]
  /\ pc' = "range"
  /\ UNCHANGED <<engineVars, configVars, inbound, cur, visited, startResult, twipiClosed,
                 parentCancelled, errgVars, twipiTask, httpTask, subVars, cmdVars>>

\* errg.Wait(): blocks until the wait counter is zero
WaitCanReturn == ErrgPending = 0

\* return errg.Wait(): cancels the derived context, returns the first error
StartWait ==
  /\ pc = "wait"
  /\ WaitCanReturn
  /\ groupCancelled' = TRUE
  /\ Return(errgErr)
  /\ UNCHANGED <<engineVars, configVars, inbound, cur, visited, parentCancelled, errgErr,
                 twipiTask, httpTask, subVars, cmdVars, modStart>>

StartThread ==
  \/ StartCheck \/ StartSpawnTwipi \/ StartSpawnHTTP \/ StartRange
  \/ StartMessager \/ StartCommander \/ StartModule \/ StartWait

\* signal.NotifyContext in Main: the caller cancels the context
CancelCtx ==
  /\ ~parentCancelled
  /\ parentCancelled' = TRUE
  /\ UNCHANGED <<engineVars, configVars, inbound, startVars, errgVars, twipiTask, httpTask,
                 subVars, cmdVars, modStart>>

(***************************************************************************)
(* Units supervised by the errgroup                                        *)
(***************************************************************************)
\* a function passed to errg.Go returned e
ErrgDone(e) ==
  /\ errgErr' = ErrgErrAfter(e)
  /\ groupCancelled' = GroupCancelledAfter(e)

\* l.twipi.UpdateTwilio(ctx); return nil
TwipiUpdateReturn ==
  /\ twipiTask = "run"
  /\ twipiTask' = "done"
  /\ ErrgDone(Nil)
  /\ UNCHANGED <<engineVars, configVars, inbound, startVars, parentCancelled, httpTask, subVars,
                 cmdVars, modStart>>

\* return listener.HTTPListenAndServeCtx(ctx, l.http)
HTTPServeReturn ==
  /\ httpTask = "run"
  /\ httpTask' = "done"
  /\ \E e \in {Nil, ErrHTTP} : ErrgDone(e)
  /\ UNCHANGED <<engineVars, configVars, inbound, startVars, parentCancelled, twipiTask, subVars,
                 cmdVars, modStart>>

\* handler.Start(ctx) returned; an error is wrapped with the module's name
ModuleStartReturn(m) ==
  /\ modStart[m] = "run"
  /\ modStart' = [modStart EXCEPT ![m] = "done"]
  /\ \E e \in {Nil, ErrModuleStart(m)} : ErrgDone(e)
  /\ UNCHANGED <<engineVars, configVars, inbound, startVars, parentCancelled, twipiTask, httpTask,
                 subVars, cmdVars>>

\* ch := make(chan twipi.Message); SubscribeMessages("", ch)
SubLoopSubscribe(m) ==
  /\ subLoop[m] = "spawned"
  /\ subLoop' = [subLoop EXCEPT ![m] = "select"]
  /\ UNCHANGED <<engineVars, configVars, inbound, startVars, parentCancelled, errgVars, twipiTask,
                 httpTask, hm, subSpawned, cmdVars, modStart>>

\* case msg := <-ch: errg.Go(HandleMessage)
SubLoopRecv(m) ==
  /\ subLoop[m] = "select"
  /\ inbound > 0
  /\ inbound' = inbound - 1
  /\ hm' = [hm EXCEPT ![m] = @ + 1]
  /\ subSpawned' = [subSpawned EXCEPT ![m] = @ + 1]
  /\ UNCHANGED <<engineVars, configVars, startVars, parentCancelled, errgVars, twipiTask,
                 httpTask, subLoop, cmdVars, modStart>>

\* case <-ctx.Done(): return nil (the deferred UnsubscribeMessages runs)
SubLoopCancel(m) ==
  /\ subLoop[m] = "select"
  /\ CtxDone
  /\ subLoop' = [subLoop EXCEPT ![m] = "done"]
  /\ ErrgDone(Nil)
  /\ UNCHANGED <<engineVars, configVars, inbound, startVars, parentCancelled, twipiTask, httpTask,
                 hm, subSpawned, cmdVars, modStart>>

\* messager.HandleMessage(ctx, msg); return nil
HandleMessageReturn(m) ==
  /\ hm[m] > 0
  /\ hm' = [hm EXCEPT ![m] = @ - 1]
  /\ ErrgDone(Nil)
  /\ UNCHANGED <<engineVars, configVars, inbound, startVars, parentCancelled, twipiTask, httpTask,
                 subLoop, subSpawned, cmdVars, modStart>>

(***************************************************************************)
(* Command.Loop and its dispatch units                                     *)
(***************************************************************************)
\* cmd := commander.Command(); h.SubscribeMessages("", ch)
CmdLoopSubscribe(m) ==
  /\ cmdLoop[m] = "spawned"
  /\ cmdLoop' = [cmdLoop EXCEPT ![m] = "select"]
  /\ cmdSub' = [cmdSub EXCEPT ![m] = TRUE]
  /\ UNCHANGED <<engineVars, configVars, inbound, startVars, parentCancelled, errgVars, twipiTask,
                 httpTask, subVars, dr, cmdRecv, cmdSpawned, lastDoErr, modStart>>

\* case msg := <-ch: wg.Add(1); go c.DoAndReply(ctx, cli, msg)
CmdLoopRecv(m) ==
  /\ cmdLoop[m] = "select"
  /\ inbound > 0
  /\ inbound' = inbound - 1
  /\ cmdRecv' = [cmdRecv EXCEPT ![m] = @ + 1]
  /\ cmdSpawned' = [cmdSpawned EXCEPT ![m] = @ + 1]
  /\ dr' = [dr EXCEPT ![m] = @ + 1]
  /\ UNCHANGED <<engineVars, configVars, startVars, parentCancelled, errgVars, twipiTask,
                 httpTask, subVars, cmdLoop, cmdSub, lastDoErr,
                 modStart>>

\* case <-ctx.Done(): return; deferred h.UnsubscribeMessages(ch) runs first
CmdLoopCancel(m) ==
  /\ cmdLoop[m] = "select"
  /\ CtxDone
  /\ cmdLoop' = [cmdLoop EXCEPT ![m] = "waiting"]
  /\ cmdSub' = [cmdSub EXCEPT ![m] = FALSE]
  /\ UNCHANGED <<engineVars, configVars, inbound, startVars, parentCancelled, errgVars, twipiTask,
                 httpTask, subVars, dr, cmdRecv, cmdSpawned, lastDoErr, modStart>>

WgPending_NoWait(m) == 0

\* the counter of Loop's sync.WaitGroup
WgPending(m) == dr[m]

CmdLoopResult_DispatchErr == lastDoErr

\* cmd.Loop(...) returns nothing and the unit returns nil
CmdLoopResult == Nil

\* deferred wg.Wait() is satisfied; Loop returns and the unit returns
CmdLoopReturn(m) ==
  /\ cmdLoop[m] = "waiting"
  /\ WgPending(m) = 0
  /\ cmdLoop' = [cmdLoop EXCEPT ![m] = "done"]
  /\ ErrgDone(CmdLoopResult)
  /\ UNCHANGED <<engineVars, configVars, inbound, startVars, parentCancelled, twipiTask, httpTask,
                 subVars, dr, cmdRecv, cmdSpawned, cmdSub, lastDoErr, modStart>>

\* c.DoAndReply(ctx, cli, msg); wg.Done(): Do returned err, and the reply
\* attempted on err != nil succeeded or not
DoAndReplyReturn(m) ==
  /\ dr[m] > 0
  /\ dr' = [dr EXCEPT ![m] = @ - 1]
  /\ \E err \in {Nil, ErrNotMatchedText, ErrAction}, replyOk \in BOOLEAN :
       lastDoErr' = IF err = Nil THEN lastDoErr
                    ELSE IF replyOk THEN err ELSE ErrReply
  /\ UNCHANGED <<engineVars, configVars, inbound, startVars, parentCancelled, errgVars, twipiTask,
                 httpTask, subVars, cmdLoop, cmdRecv, cmdSpawned, cmdSub,
                 modStart>>

Next ==
  \/ StartCheck
  \/ StartSpawnTwipi
  \/ StartSpawnHTTP
  \/ StartRange
  \/ StartMessager
  \/ StartCommander
  \/ StartModule
  \/ StartWait
  \/ CancelCtx
  \/ TwipiUpdateReturn
  \/ HTTPServeReturn
  \/ \E m \in Modules : ModuleStartReturn(m)
  \/ \E m \in Modules : SubLoopSubscribe(m)
  \/ \E m \in Modules : SubLoopRecv(m)
  \/ \E m \in Modules : SubLoopCancel(m)
  \/ \E m \in Modules : HandleMessageReturn(m)
  \/ \E m \in Modules : CmdLoopSubscribe(m)
  \/ \E m \in Modules : CmdLoopRecv(m)
  \/ \E m \in Modules : CmdLoopCancel(m)
  \/ \E m \in Modules : CmdLoopReturn(m)
  \/ \E m \in Modules : DoAndReplyReturn(m)

Spec == Init /\ [][Next]_vars

(***************************************************************************)
(* Scheduling                                                              *)
(***************************************************************************)
\* the goroutine running Start is always scheduled; nothing is assumed of
\* the supervised units
FairStart == InitFair /\ [][Next]_vars /\ WF_vars(StartThread)

\* every goroutine is scheduled, and every blocking call that takes the
\* context (module Start, HandleMessage, the command action and reply, the
\* transport and HTTP tasks) returns once the context is done
FairSpec ==
  /\ InitFair /\ [][Next]_vars
  /\ WF_vars(StartThread)
  /\ WF_vars(CtxDone /\ TwipiUpdateReturn)
  /\ WF_vars(CtxDone /\ HTTPServeReturn)
  /\ \A m \in Modules :
       /\ WF_vars(CtxDone /\ ModuleStartReturn(m))
       /\ WF_vars(SubLoopSubscribe(m))
       /\ WF_vars(SubLoopCancel(m))
       /\ WF_vars(CtxDone /\ HandleMessageReturn(m))
       /\ WF_vars(CmdLoopSubscribe(m))
       /\ WF_vars(CmdLoopCancel(m))
       /\ WF_vars(CmdLoopReturn(m))
       /\ WF_vars(CtxDone /\ DoAndReplyReturn(m))

(***************************************************************************)
(* Properties of Loader.Start                                              *)
(***************************************************************************)
Returned == startResult # NotReturned

\* C1: the first unit error cancels the shared context, and whenever Start
\* returns after some unit has failed, its result is the error of the unit
\* that failed first
C1_FirstUnitErrorIsResult ==
  /\ [](errgErr # Nil => groupCancelled)
  /\ [][(~Returned /\ Returned' /\ errgErr # Nil) => startResult' = errgErr]_vars

\* C2: on every return path of Start, no unit this Start spawned (transport
\* update, HTTP loop, subscription loop, command loop, module Start,
\* per-message unit) is still running
C2_ReturnsAfterEveryUnit ==
  Returned => (ErrgPending = 0 /\ \A m \in Modules : dr[m] = 0)

NoUnitEverSpawned ==
  /\ twipiTask = "none"
  /\ httpTask = "none"
  /\ \A m \in Modules :
       /\ subLoop[m] = "none" /\ cmdLoop[m] = "none" /\ modStart[m] = "none"
       /\ subSpawned[m] = 0 /\ cmdSpawned[m] = 0 /\ ~cmdSub[m]

\* C3: while "twid" is not enabled, Start returns nothing but the "twid is
\* not enabled" error, spawns no unit and calls no module, whatever else is
\* enabled or configured
C3_RefusesUnlessTwidEnabled ==
  ~enabled["twid"] =>
    /\ startResult \in {NotReturned, ErrTwidNotEnabled}
    /\ pc \in {"check", "returned"}
    /\ NoUnitEverSpawned

C3_Witness ==
  /\ ~enabled["twid"]
  /\ startResult = ErrTwidNotEnabled
  /\ twipi = "ok" /\ http
  /\ \E m \in Modules : enabled[m] /\ caps[m] # {}

\* an enabled module needs the transport and the transport (or its message
\* handler) is not configured
TransportMissing ==
  /\ enabled["twid"]
  /\ twipi # "ok"
  /\ \E m \in Modules : enabled[m] /\ caps[m] # {}

\* C4: when an enabled module needs the transport and it is not configured,
\* Start never reaches the group wait, returns nothing but the precondition
\* error, and does return even though no spawned unit is assumed to end
C4_PreconditionErrorWithoutWait ==
  /\ [](TransportMissing =>
          /\ pc # "wait"
          /\ startResult \in {NotReturned, ErrTwipiNotConfigured,
                              ErrTwipiMessageNotConfigured})
  /\ (TransportMissing ~> Returned)

C4_Witness ==
  /\ TransportMissing
  /\ startResult \in {ErrTwipiNotConfigured, ErrTwipiMessageNotConfigured}
  /\ ErrgPending > 0

\* C5 as stated: the group wait of Start is over as soon as the units Start
\* itself spawned have returned, whatever the per-message HandleMessage
\* units are doing
C5_WaitIgnoresHandleMessage ==
  (pc = "wait" /\ TopLevelPending = 0) => WaitCanReturn

\* C5 amended: Start never returns while a HandleMessage unit is running
\* (the units are spawned on Start's own group), and a command loop that has
\* returned has no dispatch unit running
C5_StartWaitsForHandleMessage ==
  /\ Returned => \A m \in Modules : hm[m] = 0
  /\ \A m \in Modules : cmdLoop[m] = "done" => dr[m] = 0

C5_Witness ==
  /\ Returned
  /\ \E m \in Modules : subSpawned[m] > 0 /\ subLoop[m] = "done"

\* C6: once the context passed to Start is cancelled, Start eventually
\* returns
C6_CancelledEventuallyReturns == parentCancelled ~> Returned

C6_Witness ==
  /\ parentCancelled
  /\ startResult = Nil
  /\ \E m \in Modules : subLoop[m] = "done"
  /\ \E m \in Modules : cmdLoop[m] = "done" /\ cmdSpawned[m] > 0

\* C7: no error of a dispatch (action error, NotMatched, failed reply) is
\* ever recorded by the group or returned by Start, and the shared scope is
\* only ever cancelled by a module Start or HTTP error or by Start's return
C7_DispatchNeverAborts ==
  /\ errgErr \in {Nil} \cup UnitErrors
  /\ startResult \notin DispatchErrors
  /\ groupCancelled => (errgErr \in UnitErrors \/ pc = "returned")

C7_Witness ==
  /\ lastDoErr = ErrReply
  /\ startResult = Nil

\* C8: Command.Loop spawns one dispatch unit per received message; from the
\* moment it stops selecting its channel is unsubscribed, and when it has
\* returned no dispatch unit it spawned is running
C8_LoopDrainsItsUnits ==
  \A m \in Modules :
    /\ cmdSpawned[m] = cmdRecv[m]
    /\ cmdLoop[m] \in {"waiting", "done"} => ~cmdSub[m]
    /\ cmdLoop[m] = "done" => dr[m] = 0

C8_Witness ==
  \E m \in Modules : cmdLoop[m] = "done" /\ cmdSpawned[m] = 2

(***************************************************************************)
(* twicli: dispatch of one message                                         *)
(***************************************************************************)
\* the loader is not started while the command engine is exercised
LoaderIdle ==
  /\ enabled = [n \in Names |-> FALSE]
  /\ caps = [m \in Modules |-> {}]
  /\ twipi = "nil"
  /\ http = FALSE
  /\ pc = "check"
  /\ cur = "none"
  /\ visited = {}
  /\ startResult = NotReturned
  /\ twipiClosed = FALSE
  /\ parentCancelled = FALSE
  /\ groupCancelled = FALSE
  /\ errgErr = Nil
  /\ twipiTask = "none"
  /\ httpTask = "none"
  /\ subLoop = [m \in Modules |-> "none"]
  /\ cmdLoop = [m \in Modules |-> "none"]
  /\ modStart = [m \in Modules |-> "none"]
  /\ hm = [m \in Modules |-> 0]
  /\ dr = [m \in Modules |-> 0]
  /\ subSpawned = [m \in Modules |-> 0]
  /\ cmdRecv = [m \in Modules |-> 0]
  /\ cmdSpawned = [m \in Modules |-> 0]
  /\ cmdSub = [m \in Modules |-> FALSE]
  /\ lastDoErr = Nil
  /\ inbound = 0

InitCmd ==
  /\ LoaderIdle
  /\ root \in {RootOver(cmds) : cmds \in ChildLists}
  /\ inbox \in {<<msg>> : msg \in Messages}
  /\ EngineIdle
  /\ LibIdle

\* the reply attempted by cli.ReplySMS(ctx, msg, body)
ReplySMS(msg, text) == [to |-> msg, text |-> text]

\* Command.DoAndReply(ctx, cli, msg) for the message Loop received;
\* replyOk: whether cli.ReplySMS succeeds
DoAndReply(replyOk) ==
  LET msg == Head(inbox)
      arg == Message(msg, msg.body)
      r == Do(root, arg, <<>>)
  IN /\ inbox # <<>>
     /\ inbox' = Tail(inbox)
     /\ cmdMsg' = msg
     /\ callerMsg' = AfterCall(arg, r.msg)
     /\ doErr' = r.err
     /\ trace' = r.trace
     /\ replies' = IF r.err # NilErr
                     THEN <<ReplySMS(msg, ErrorMessage(r.err))>>
                     ELSE <<>>
     /\ logged' = (r.err # NilErr /\ ~replyOk)
     /\ UNCHANGED <<root, loaderVars, libVars>>

NextCmd == \E replyOk \in BOOLEAN : DoAndReply(replyOk)

SpecCmd == InitCmd /\ [][NextCmd]_vars

(***************************************************************************)
(* Properties of the command engine                                        *)
(***************************************************************************)
Dispatched == cmdMsg # NoMessage

\* C9: DoAndReply sends no reply when Do succeeds; when Do fails it attempts
\* exactly one reply to the original message, with the generic text for
\* NotMatched (also wrapped) and otherwise "Sorry, an error occurred: "
\* followed by the error's detail; a failed reply is only logged
C9_ReplyMapsError ==
  Dispatched =>
    /\ doErr = NilErr => (replies = <<>> /\ ~logged)
    /\ doErr # NilErr =>
         /\ Len(replies) = 1
         /\ replies[1].to = cmdMsg
         /\ replies[1].text =
              IF ErrorsIs(doErr, ErrNotMatched) THEN NotUnderstood
              ELSE "Sorry, an error occurred: " \o ErrorText(doErr)

\* the aggregate of the root command ran: its matcher and action were invoked
AggregateRan == Len(trace) >= 2

\* the body the aggregate received
AggregateBody == trace[2].body

ChildOutcome(i) == Do(root.children[i], Message(cmdMsg, AggregateBody), <<>>).err

\* children whose own outcome is not NotMatched
Deciders == {i \in 1..Len(root.children) : ~ErrorsIs(ChildOutcome(i), ErrNotMatched)}

FirstDecider == CHOOSE i \in Deciders : \A j \in Deciders : i <= j

\* the children whose matcher was invoked, in the order of invocation
MatchersInvoked ==
  LET ev == SelectSeq(trace, LAMBDA e : e.cmd # 0 /\ e.ev = "prefix")
  IN [k \in 1..Len(ev) |-> ev[k].cmd]

ActionsInvoked == {trace[k].cmd : k \in {j \in 1..Len(trace) : trace[j].ev = "action"}} \ {0}

\* C10: Subcommands tries the children in list order, skips a child whose
\* outcome is NotMatched, returns the outcome of the first other child
\* without invoking any later child's matcher or action, and returns
\* NotMatched when every child (or none at all) yields NotMatched
C10_SubcommandsInOrder ==
  AggregateRan =>
    LET n == Len(root.children)
        last == IF Deciders = {} THEN n ELSE FirstDecider
    IN /\ doErr = IF Deciders = {} THEN ErrNotMatched ELSE ChildOutcome(FirstDecider)
       /\ MatchersInvoked = [k \in 1..last |-> k]
       /\ \A i \in ActionsInvoked : i <= last

C10_Witness ==
  /\ AggregateRan
  /\ Len(root.children) = 2
  /\ ChildOutcome(1) = ErrBoom
  /\ ChildOutcome(2) = NilErr
  /\ doErr = ErrBoom

(***************************************************************************)
(* twicli: command trees with nested aggregations                          *)
(***************************************************************************)
MaxGrand == 1

NestedWords == {"ping", "echo"}

NestedBodies == SeqsUpTo(NestedWords, MaxWords + 1)

NestedMessages ==
  {[from |-> "+15550001", to |-> "+15550002", body |-> b] : b \in NestedBodies}

NestedResults == {NilErr, ErrNotMatched, ErrBoom}

GrandResults == {NilErr, ErrNotMatched}

\* Command{Prefix: NewWordPrefix(pf.word, pf.cased), Action: Subcommands(kids)}
Nested(i, pf, kids) ==
  [id |-> i, prefix |-> pf, kind |-> "sub", result |-> NilErr, children |-> kids]

\* the children of the nested aggregate i: leaves matching "echo"
GrandLists(i) ==
  UNION {{[j \in 1..n |-> Leaf(10 * i + j, [word |-> "echo", cased |-> FALSE], res[j])] :
            res \in [1..n -> GrandResults]} : n \in 0..MaxGrand}

\* what child i of the root can be: a leaf or a nested aggregate
NestedChildren(i) ==
  {Leaf(i, pf, res) : pf \in LeafPrefixes, res \in NestedResults}
    \cup {Nested(i, [word |-> "ping", cased |-> FALSE], kids) : kids \in GrandLists(i)}

NestedLists ==
  UNION {{cmds \in [1..n -> UNION {NestedChildren(i) : i \in 1..n}] :
            \A i \in 1..n : cmds[i] \in NestedChildren(i)} : n \in 0..MaxChildren}

InitNested ==
  /\ LoaderIdle
  /\ root \in {RootOver(cmds) : cmds \in NestedLists}
  /\ inbox \in {<<msg>> : msg \in NestedMessages}
  /\ EngineIdle
  /\ LibIdle

SpecNested == InitNested /\ [][NextCmd]_vars

\* child i's matcher matches the body the aggregate received
ChildMatched(i) == Prefix(root.children[i].prefix, AggregateBody).ok

\* C11: whenever the aggregation returns NotMatched no child's matcher
\* matched the body, and once a child's matcher matched no later sibling is
\* tried
C11_NotMatchedOnlyIfNoChildMatched ==
  AggregateRan =>
    /\ doErr = ErrNotMatched => \A i \in 1..Len(root.children) : ~ChildMatched(i)
    /\ \A i, j \in 1..Len(root.children) :
         (i < j /\ ChildMatched(i)) => \A k \in 1..Len(MatchersInvoked) : MatchersInvoked[k] # j

(***************************************************************************)
(* Command.Do                                                              *)
(***************************************************************************)
\* the command of the dispatched tree with the given id
CommandById(id) ==
  IF id = 0 THEN root
  ELSE IF id < 10 THEN root.children[id]
  ELSE root.children[id \div 10].children[id % 10]

\* the positions of the trace at which the matcher of a command was invoked
PrefixEvents == {k \in 1..Len(trace) : trace[k].ev = "prefix"}

ActionEvents == {k \in 1..Len(trace) : trace[k].ev = "action"}

\* C12: Do runs the matcher on the message body; on a match the action is
\* invoked exactly once, with the remainder as body and every other field
\* of the message as it was, and Do returns the action's result; on a miss
\* the action is not invoked and Do returns the NotMatched sentinel, which
\* errors.Is recognises through any chain wrapped around it
C12_DoMatchesThenActs ==
  Dispatched =>
    /\ trace[1] = Invoked(root, "prefix", Message(cmdMsg, cmdMsg.body))
    /\ \A k \in PrefixEvents :
         LET c == CommandById(trace[k].cmd)
             r == Prefix(c.prefix, trace[k].body)
         IN /\ \A j \in PrefixEvents : trace[j].cmd = trace[k].cmd => j = k
            /\ IF r.ok
                 THEN /\ k + 1 \in ActionEvents
                      /\ trace[k + 1] = Invoked(c, "action", Message(trace[k].orig, r.body))
                 ELSE k + 1 \notin ActionEvents
    /\ \A k \in ActionEvents :
         /\ k - 1 \in PrefixEvents
         /\ trace[k - 1].cmd = trace[k].cmd
         /\ ( /\ k = Len(trace)
              /\ CommandById(trace[k].cmd).kind = "leaf"
              /\ ~ErrorsIs(CommandById(trace[k].cmd).result, ErrNotMatched) )
              => doErr = CommandById(trace[k].cmd).result
    /\ IF Prefix(root.prefix, cmdMsg.body).ok
         THEN doErr = Action(root, Message(cmdMsg, Prefix(root.prefix, cmdMsg.body).body), <<>>).err
         ELSE /\ doErr = ErrNotMatched
              /\ Len(trace) = 1
              /\ ErrorsIs(Wrap(Wrap(doErr, "dispatch"), "loop"), ErrNotMatched)

\* the root's matcher matched a body of two words, its action ran on the
\* remaining word, and a leaf's action failed
C12_Witness ==
  /\ Dispatched
  /\ Len(cmdMsg.body) = 2
  /\ 2 \in ActionEvents
  /\ Len(trace[2].body) = 1
  /\ \E k \in ActionEvents : trace[k].cmd # 0
  /\ doErr = ErrBoom

(***************************************************************************)
(* twicli: the prefix matchers                                             *)
(***************************************************************************)
MaxCombined == 2

PrefixWords == {"discord,", "Discord,", "/msg", "/Msg", "ping", "Ping", "echo"}

PrefixBodies == SeqsUpTo(PrefixWords, MaxWords)

\* what a PrefixFunc returns
Returned2(body, ok) == [body |-> body, ok |-> ok]

\* the PrefixFunc returned by NewNaturalPrefix(name)
NewNaturalPrefix(name, body) ==
  LET prefix == Lower(name) \o ","
      p == PopFirstWord(body)
  IN IF p.err THEN Returned2(<<>>, FALSE)
     ELSE IF Lower(p.first) # prefix THEN Returned2(<<>>, FALSE)
     ELSE Returned2(p.tail, TRUE)

\* the PrefixFunc returned by NewSlashPrefix(name)
NewSlashPrefix(name, body) ==
  LET prefix == "/" \o name
      p == PopFirstWord(body)
  IN IF p.err THEN Returned2(<<>>, FALSE)
     ELSE IF p.first # prefix THEN Returned2(<<>>, FALSE)
     ELSE Returned2(p.tail, TRUE)

\* a PrefixFunc written by the caller: it matches the phrase of m.drop words
\* that starts with m.first and returns what follows the phrase
PhrasePrefix(m, body) ==
  IF Len(body) >= m.drop /\ body[1] = m.first
    THEN Returned2(SubSeq(body, m.drop + 1, Len(body)), TRUE)
    ELSE Returned2(body, FALSE)

\* the built-in matchers and the caller's, uncombined
Natural(name) == [kind |-> "natural", name |-> name]

Slash(name) == [kind |-> "slash", name |-> name]

Word(word, cased) == [kind |-> "word", word |-> word, cased |-> cased]

Phrase(first, drop) == [kind |-> "phrase", first |-> first, drop |-> drop]

Combined(parts) == [kind |-> "combine", parts |-> parts]

\* prefix(msg) for an uncombined PrefixFunc
ApplySimple(m, body) ==
  CASE m.kind = "natural" -> NewNaturalPrefix(m.name, body)
    [] m.kind = "slash" -> NewSlashPrefix(m.name, body)
    [] m.kind = "word" -> NewWordPrefix(m.word, m.cased, body)
    [] m.kind = "phrase" -> PhrasePrefix(m, body)

\* the loop of the PrefixFunc returned by CombinePrefixes, from prefix i on
RECURSIVE CombineFrom(_, _, _)
CombineFrom(prefixes, i, body) ==
  IF i > Len(prefixes) THEN Returned2(<<>>, FALSE)
  ELSE LET r == ApplySimple(prefixes[i], body)
       IN IF r.ok THEN Returned2(r.body, TRUE)
          ELSE CombineFrom(prefixes, i + 1, body)

CombinePrefixes_LastWins(prefixes, body) ==
  LET hits == {k \in 1..Len(prefixes) : ApplySimple(prefixes[k], body).ok}
  IN IF hits = {} THEN Returned2(<<>>, FALSE)
     ELSE Returned2(ApplySimple(prefixes[CHOOSE k \in hits : \A j \in hits : j <= k], body).body, TRUE)

\* the PrefixFunc returned by CombinePrefixes(prefixes...)
CombinePrefixes(prefixes, body) == CombineFrom(prefixes, 1, body)

\* prefix(msg) for any PrefixFunc of the model
Apply(m, body) ==
  IF m.kind = "combine" THEN CombinePrefixes(m.parts, body) ELSE ApplySimple(m, body)

BuiltIns ==
  {Natural("Discord"), Slash("msg"), Word("ping", TRUE), Word("ping", FALSE)}

SimpleMatchers == BuiltIns \cup {Phrase("ping", 2)}

Matchers ==
  SimpleMatchers \cup
    {Combined(parts) : parts \in UNION {[1..n -> SimpleMatchers] : n \in 0..MaxCombined}}

CmdIdle ==
  /\ root = RootOver(<<>>)
  /\ inbox = <<>>
  /\ EngineIdle

InitPrefix ==
  /\ LoaderIdle
  /\ CmdIdle
  /\ matcher \in Matchers
  /\ input \in PrefixBodies
  /\ matched = <<>>
  /\ BusIdle
  /\ RegistryIdle
  /\ LoadIdle

\* prefix(msg)
ApplyPrefix ==
  /\ matched = <<>>
  /\ matched' = <<Apply(matcher, input)>>
  /\ UNCHANGED <<matcher, input, loaderVars, root, inbox, cmdMsg, callerMsg,
                 doErr, trace, replies, logged, busVars, registryVars, loadVars>>

NextPrefix == ApplyPrefix

SpecPrefix == InitPrefix /\ [][NextPrefix]_vars

\* the token an uncombined built-in matcher is registered for is the first
\* word of the body
RECURSIVE StartsWithToken(_, _)
StartsWithToken(m, body) ==
  /\ body # <<>>
  /\ CASE m.kind = "natural" -> Lower(body[1]) = Lower(m.name \o ",")
       [] m.kind = "slash" -> body[1] = "/" \o m.name
       [] m.kind = "word" -> IF m.cased THEN body[1] = m.word
                                        ELSE Lower(body[1]) = Lower(m.word)
       [] m.kind = "phrase" -> body[1] = m.first
       [] m.kind = "combine" -> \E k \in 1..Len(m.parts) : StartsWithToken(m.parts[k], body)

\* only built-in matchers are combined
BuiltIn(m) ==
  IF m.kind = "combine" THEN \A k \in 1..Len(m.parts) : m.parts[k] \in BuiltIns
  ELSE m \in BuiltIns

\* C13: a built-in matcher, or a combination of built-in matchers, applied
\* to a body whose first token is not its registered token returns
\* matched=false and the input body
C13_MissReturnsInputBody ==
  (matched # <<>> /\ BuiltIn(matcher) /\ ~StartsWithToken(matcher, input)) =>
    /\ ~matched[1].ok
    /\ matched[1].body = input

\* the parts of the combination that match the input on their own
PartsMatching ==
  {k \in 1..Len(matcher.parts) : ApplySimple(matcher.parts[k], input).ok}

FirstPartMatching == CHOOSE k \in PartsMatching : \A j \in PartsMatching : k <= j

\* C14: a combination matches exactly when one of its parts matches on its
\* own, and then returns the remainder of the first such part in the order
\* given; a combination of no parts never matches
C14_CombineFirstMatchWins ==
  (matched # <<>> /\ matcher.kind = "combine") =>
    /\ matched[1].ok = (PartsMatching # {})
    /\ PartsMatching # {} =>
         matched[1].body = ApplySimple(matcher.parts[FirstPartMatching], input).body
    /\ matcher.parts = <<>> => ~matched[1].ok

\* both parts match and would return different remainders
C14_Witness ==
  /\ matched # <<>>
  /\ matcher.kind = "combine"
  /\ Len(matcher.parts) = 2
  /\ PartsMatching = {1, 2}
  /\ ApplySimple(matcher.parts[1], input).body # ApplySimple(matcher.parts[2], input).body
  /\ matched[1] = Returned2(ApplySimple(matcher.parts[1], input).body, TRUE)

(***************************************************************************)
(* twisms: FilterMessage and ReplyMessage                                  *)
(***************************************************************************)
MaxFilters == 2

\* twismsproto.Message on the bus
BusMessages == [from : Numbers, to : Numbers, body : {"hello"}]

\* twismsproto.MessageFilter: match-from, match-to, or no filter set
Filters ==
  [kind : {"from", "to"}, value : Numbers] \cup {[kind |-> "unset", value |-> ""]}

\* *twismsproto.MessageFilters: nil, or a list of filters
FilterLists ==
  {[nil |-> TRUE, filters |-> <<>>]} \cup
    {[nil |-> FALSE, filters |-> fs] : fs \in SeqsUpTo(Filters, MaxFilters)}

\* filters.GetFilters(): no filters on a nil receiver
GetFilters(fs) == IF fs.nil THEN <<>> ELSE fs.filters

Rejects_FromOnly(filter, msg) == filter.kind = "from" /\ msg.from # filter.value

\* the switch of FilterMessage: the filter makes FilterMessage return false
Rejects(filter, msg) ==
  CASE filter.kind = "from" -> msg.from # filter.value
    [] filter.kind = "to" -> msg.to # filter.value
    [] OTHER -> FALSE

\* the loop of FilterMessage, from filter i on
RECURSIVE FilterFrom(_, _, _)
FilterFrom(list, i, msg) ==
  IF i > Len(list) THEN TRUE
  ELSE IF Rejects(list[i], msg) THEN FALSE
  ELSE FilterFrom(list, i + 1, msg)

FilterMessage(fs, msg) == FilterFrom(GetFilters(fs), 1, msg)

ReplyBodies == {"ok", "sorry"}

\* a MessageSender, which may also be a MessageReplier, and what its
\* SendMessage or ReplyMessage returns
Services == [replier : BOOLEAN, result : {NilErr, ErrBoom}]

NewReplyingMessage(msg, body) == [from |-> msg.to, to |-> msg.from, body |-> body]

Call(method, args) == [method |-> method, args |-> args]

ReplyMessage_SendAlways(s, msg, body) ==
  [calls |-> <<Call("SendMessage", <<[from |-> msg.to, to |-> msg.from, body |-> body]>>)>>,
   err |-> s.result]

\* twisms.ReplyMessage(ctx, s, msg, body): the calls made on s and the result
ReplyMessage(s, msg, body) ==
  IF s.replier
    THEN [calls |-> <<Call("ReplyMessage", <<msg, body>>)>>, err |-> s.result]
    ELSE LET reply == [from |-> msg.to, to |-> msg.from, body |-> body]
         IN [calls |-> <<Call("SendMessage", <<reply>>)>>, err |-> s.result]

InitBus ==
  /\ LoaderIdle
  /\ CmdIdle
  /\ PrefixIdle
  /\ sms \in BusMessages
  /\ filters \in FilterLists
  /\ accepted = <<>>
  /\ service \in Services
  /\ replyBody \in ReplyBodies
  /\ calls = <<>>
  /\ replyErr = <<>>
  /\ RegistryIdle
  /\ LoadIdle

\* FilterMessage(filters, msg)
Filter ==
  /\ accepted = <<>>
  /\ accepted' = <<FilterMessage(filters, sms)>>
  /\ UNCHANGED <<sms, filters, service, replyBody, calls, replyErr, prefixVars,
                 loaderVars, root, inbox, cmdMsg, callerMsg, doErr, trace,
                 replies, logged, registryVars, loadVars>>

\* ReplyMessage(ctx, s, msg, body)
Reply ==
  /\ replyErr = <<>>
  /\ calls' = ReplyMessage(service, sms, replyBody).calls
  /\ replyErr' = <<ReplyMessage(service, sms, replyBody).err>>
  /\ UNCHANGED <<sms, filters, accepted, service, replyBody, prefixVars,
                 loaderVars, root, inbox, cmdMsg, callerMsg, doErr, trace,
                 replies, logged, registryVars, loadVars>>

NextBus == Filter \/ Reply

SpecBus == InitBus /\ [][NextBus]_vars

\* C15: FilterMessage accepts a message exactly when every filter of the
\* list holds for it, where a match-from filter holds iff the message's from
\* equals its value and a match-to filter holds iff the message's to equals
\* its value; with an empty or absent list it accepts every message
C15_FilterIsConjunction ==
  accepted # <<>> =>
    LET list == IF filters.nil THEN <<>> ELSE filters.filters
    IN /\ accepted[1] =
            \A k \in 1..Len(list) :
              /\ list[k].kind = "from" => sms.from = list[k].value
              /\ list[k].kind = "to" => sms.to = list[k].value
       /\ list = <<>> => accepted[1]

\* a message that passes the match-from filter is rejected by the match-to
\* filter after it
C15_Witness ==
  /\ accepted = <<FALSE>>
  /\ ~filters.nil
  /\ Len(filters.filters) = 2
  /\ filters.filters[1] = [kind |-> "from", value |-> sms.from]
  /\ filters.filters[2].kind = "to"
  /\ filters.filters[2].value # sms.to

\* C16: the reply to a message goes from the original's to, to the
\* original's from, with the supplied body; on a plain sender ReplyMessage
\* calls SendMessage exactly once, with exactly that message, and returns its
\* result; on a replier it calls ReplyMessage exactly once, with the
\* original message and the body, never calls SendMessage, and returns its
\* result
C16_ReplyUsesFastPath ==
  /\ NewReplyingMessage(sms, replyBody) =
       [from |-> sms.to, to |-> sms.from, body |-> replyBody]
  /\ replyErr # <<>> =>
       /\ Len(calls) = 1
       /\ replyErr[1] = service.result
       /\ IF service.replier
            THEN calls[1] = Call("ReplyMessage", <<sms, replyBody>>)
            ELSE calls[1] = Call("SendMessage", <<NewReplyingMessage(sms, replyBody)>>)

\* a replier was asked to reply and failed
C16_Witness ==
  /\ replyErr = <<ErrBoom>>
  /\ service.replier
  /\ sms.from # sms.to
  /\ calls # <<>>
  /\ calls[1].method = "ReplyMessage"

(***************************************************************************)
(* twid: the global module registry                                        *)
(***************************************************************************)
MaxModules == 4

IllegalNames == {"twid", "twipi"}

\* the names modules are registered under
ModuleNames == Modules \cup {"gamma"} \cup IllegalNames

InitRegistry ==
  /\ LoaderIdle
  /\ CmdIdle
  /\ PrefixIdle
  /\ BusIdle
  /\ LoadIdle
  /\ modules = <<>>
  /\ panicMsg = ""
  /\ handlers = <<>>
  /\ built = FALSE

otherVars == <<loaderVars, root, inbox, cmdMsg, callerMsg, doErr, trace, replies,
               logged, prefixVars, busVars, loadVars>>

\* Register(Module{Name: name, ...})
Register(name) ==
  /\ panicMsg = ""
  /\ ~built
  /\ Len(modules) < MaxModules
  /\ IF name \in IllegalNames
       THEN /\ panicMsg' = "illegal module name: " \o name
            /\ UNCHANGED modules
       ELSE /\ modules' = Append(modules, name)
            /\ UNCHANGED panicMsg
  /\ UNCHANGED <<handlers, built, otherVars>>

\* NewLoader(mods): handlers[module.Name] = module.New() for each module in
\* order, a later module replacing the handler of an earlier one of its name
NewLoader(mods) ==
  [n \in {mods[i] : i \in 1..Len(mods)} |->
     CHOOSE i \in 1..Len(mods) :
       mods[i] = n /\ \A j \in 1..Len(mods) : mods[j] = n => j <= i]

\* NewGlobalLoader()
NewGlobalLoader ==
  /\ panicMsg = ""
  /\ ~built
  /\ handlers' = NewLoader(modules)
  /\ built' = TRUE
  /\ UNCHANGED <<modules, panicMsg, otherVars>>

NextRegistry ==
  \/ \E name \in ModuleNames : Register(name)
  \/ NewGlobalLoader

SpecRegistry == InitRegistry /\ [][NextRegistry]_vars

\* C17: after Register calls none of which panicked and the building of the
\* loader, no registered module has an illegal name, no two registered
\* modules share a name, and the loader holds exactly one handler for each
\* registered module
C17_RegistryNamesUnique ==
  (built /\ panicMsg = "") =>
    /\ \A i \in 1..Len(modules) : modules[i] \notin IllegalNames
    /\ \A i, j \in 1..Len(modules) : modules[i] = modules[j] => i = j
    /\ \A i \in 1..Len(modules) : \E n \in DOMAIN handlers : handlers[n] = i
    /\ Cardinality(DOMAIN handlers) = Len(modules)

(***************************************************************************)
(* twid: LoadConfig, followed by Start                                     *)
(***************************************************************************)
ErrParse == "failed to parse config"
ErrTwipiServer == "failed to create twipi server"
Panic == "panic: nil pointer dereference"

\* the optional interfaces LoadConfig and Start probe: MessageHandler,
\* CommandHandler, TwipiHandler, HTTPCommander
LoadCapabilities == Capabilities \cup {"bind", "http"}

\* the enable blocks of a document: a block is absent, or has enable = false
\* or enable = true
DocEnables ==
  {e \in [Names \cup {"twipi"} -> {"absent", "off", "on"}] :
     e["twid"] # "off" /\ e["twipi"] # "off"}

\* a configuration document: whether it parses, its enable blocks, whether
\* twid.http.listen_addr is set, and what its twipi section configures
Docs ==
  [parses : BOOLEAN, enable : DocEnables, listen : BOOLEAN,
   twipiCfg : {"invalid", "nomsg", "ok"}]

\* the handler sets considered when loading
LoadHandlerSets ==
  {c \in [Modules -> SUBSET LoadCapabilities] :
     /\ c["alpha"] \in {{"bind", "http", "msg"}, {"bind", "http", "cmd"}}
     /\ c["beta"] \in {{}, {"bind", "http"}}}

\* state after NewLoader, before LoadConfig
InitLoad ==
  /\ enabled = [n \in Names |-> FALSE]
  /\ caps \in LoadHandlerSets
  /\ twipi = "nil"
  /\ http = FALSE
  /\ pc = "load"
  /\ cur = "none"
  /\ visited = {}
  /\ startResult = NotReturned
  /\ twipiClosed = FALSE
  /\ parentCancelled = FALSE
  /\ groupCancelled = FALSE
  /\ errgErr = Nil
  /\ twipiTask = "none"
  /\ httpTask = "none"
  /\ subLoop = [m \in Modules |-> "none"]
  /\ cmdLoop = [m \in Modules |-> "none"]
  /\ modStart = [m \in Modules |-> "none"]
  /\ hm = [m \in Modules |-> 0]
  /\ dr = [m \in Modules |-> 0]
  /\ subSpawned = [m \in Modules |-> 0]
  /\ cmdRecv = [m \in Modules |-> 0]
  /\ cmdSpawned = [m \in Modules |-> 0]
  /\ cmdSub = [m \in Modules |-> FALSE]
  /\ lastDoErr = Nil
  /\ inbound = MaxRecvFair
  /\ CmdIdle
  /\ PrefixIdle
  /\ BusIdle
  /\ RegistryIdle
  /\ doc \in Docs
  /\ loadResult = NotReturned
  /\ bound = [m \in Modules |-> 0]
  /\ mounted = <<>>

\* for name, enabled := range enabledBlocks { l.enabled[name] = enabled.Enable }
EnabledAfter(d) == [n \in Names |-> d.enable[n] = "on"]

LoadSkips_Never(en, m) == FALSE

\* if !l.enabled[name] { continue }
LoadSkips(en, m) == ~en[m]

\* the handlers a loop of LoadConfig reaches that implement the interface
Wired(en, cap) == {m \in Modules : ~LoadSkips(en, m) /\ cap \in caps[m]}

\* the orders in which a range over a map can visit the handlers in S
Orders(S) ==
  {q \in SeqsUpTo(S, Cardinality(S)) :
     Len(q) = Cardinality(S) /\ \A i, j \in 1..Len(q) : q[i] = q[j] => i = j}

\* Loader.LoadConfig; the process ends when it fails or panics
LoadConfig ==
  /\ pc = "load"
  /\ LET en == EnabledAfter(doc)
         tw == doc.enable["twipi"] = "on"
     IN IF ~doc.parses
          THEN /\ loadResult' = ErrParse
               /\ pc' = "exit"
               /\ UNCHANGED <<enabled, twipi, http, bound, mounted>>
          ELSE IF tw /\ doc.twipiCfg = "invalid"
          THEN /\ enabled' = en
               /\ loadResult' = ErrTwipiServer
               /\ pc' = "exit"
               /\ UNCHANGED <<twipi, http, bound, mounted>>
          ELSE /\ enabled' = en
               /\ twipi' = IF tw THEN doc.twipiCfg ELSE "nil"
               /\ bound' = [m \in Modules |->
                              IF tw /\ m \in Wired(en, "bind") THEN bound[m] + 1 ELSE bound[m]]
               /\ http' = doc.listen
               /\ IF doc.listen
                    THEN /\ \E routes \in Orders(Wired(en, "http")) :
                              mounted' = routes \o (IF tw THEN <<"/">> ELSE <<>>)
                         /\ loadResult' = Nil
                         /\ pc' = "check"
                    ELSE IF tw
                    THEN \* l.mux.Mount on the nil mux
                         /\ loadResult' = Panic
                         /\ pc' = "exit"
                         /\ UNCHANGED mounted
                    ELSE /\ loadResult' = Nil
                         /\ pc' = "check"
                         /\ UNCHANGED mounted
  /\ UNCHANGED <<caps, inbound, cur, visited, startResult, twipiClosed,
                 parentCancelled, errgVars, twipiTask, httpTask, subVars, cmdVars,
                 modStart, root, inbox, cmdMsg, callerMsg, doErr, trace, replies,
                 logged, prefixVars, busVars, registryVars, doc>>

NextLoad == LoadConfig \/ Next

SpecLoad == InitLoad /\ [][NextLoad]_vars

\* the routes mounted so far
Routes == {mounted[k] : k \in 1..Len(mounted)}

\* the document enables the name
On(n) == doc.enable[n] = "on"

\* C18: a module that the document does not enable is never bound to the
\* transport, never mounted, never started, and never given a subscription,
\* a command loop or a message; an enabled module that implements
\* BindTwipi is bound exactly once when the transport is enabled and was
\* created
C18_OnlyEnabledModulesWired ==
  /\ \A m \in Modules : ~On(m) =>
       /\ bound[m] = 0
       /\ m \notin Routes
       /\ modStart[m] = "none"
       /\ subLoop[m] = "none"
       /\ cmdLoop[m] = "none"
       /\ ~cmdSub[m]
       /\ hm[m] = 0 /\ subSpawned[m] = 0
       /\ dr[m] = 0 /\ cmdSpawned[m] = 0 /\ cmdRecv[m] = 0
  /\ \A m \in Modules : bound[m] <= 1
  /\ (pc # "load" /\ loadResult \notin {ErrParse, ErrTwipiServer}) =>
       \A m \in Modules :
         bound[m] = IF On("twipi") /\ On(m) /\ "bind" \in caps[m] THEN 1 ELSE 0

\* Start has gone over every handler: the enabled one was bound, mounted
\* and started, the disabled one, which implements every interface the
\* loader probes but CommandHandler, was left alone
C18_Witness ==
  /\ doc.enable["alpha"] = "off"
  /\ caps["alpha"] = {"bind", "http", "msg"}
  /\ On("beta") /\ On("twipi") /\ On("twid")
  /\ bound["beta"] = 1
  /\ mounted = <<"beta", "/">>
  /\ visited = Modules
  /\ modStart["beta"] # "none"
  /\ pc = "returned"

\* C19: the transport is mounted only on an existing mux and after the
\* routes of all enabled modules, and LoadConfig with the transport enabled
\* and no listen address completes without touching a nil mux
C19_TransportMountedOnMux ==
  /\ "/" \in Routes =>
       /\ http
       /\ mounted[Len(mounted)] = "/"
       /\ \A m \in Modules : (On(m) /\ "http" \in caps[m]) => m \in Routes
  /\ loadResult # Panic
  /\ (pc # "load" /\ doc.parses /\ On("twipi") /\ doc.twipiCfg # "invalid" /\ ~doc.listen)
       => loadResult = Nil

(***************************************************************************)
(* Prefix stripping across an aggregation                                  *)
(***************************************************************************)
\* the command whose aggregation holds the command with the given id
ParentId(id) == IF id < 10 THEN 0 ELSE id \div 10

\* C20: inside one aggregation every child's matcher is given the message the
\* aggregation's own action was given, whatever the children before it did,
\* and when Do returns the message its caller passed is as it was
C20_StrippingDoesNotLeak ==
  Dispatched =>
    /\ callerMsg = Message(cmdMsg, cmdMsg.body)
    /\ \A k \in PrefixEvents : trace[k].cmd # 0 =>
         \E a \in ActionEvents :
           /\ a < k
           /\ trace[a].cmd = ParentId(trace[k].cmd)
           /\ trace[k].body = trace[a].body
           /\ trace[k].orig = trace[a].orig

\* the first child, a nested aggregation, matched, stripped its word and
\* yielded NotMatched from a child of its own; the second child was then
\* tried on the body the root's aggregation received and matched it
C20_Witness ==
  /\ Dispatched
  /\ Len(root.children) = 2
  /\ root.children[1].kind = "sub"
  /\ AggregateRan
  /\ ChildMatched(1)
  /\ ChildMatched(2)
  /\ \E k \in PrefixEvents : trace[k].cmd = 11
  /\ \E k \in PrefixEvents : trace[k].cmd = 2 /\ Len(trace[k].body) = 2
  /\ \E k \in ActionEvents : trace[k].cmd = 2
  /\ doErr = NilErr

====
